---- MODULE Spec2Model ----
(***************************************************************************)
(* Verification model of scripts/import.ts: the STEPBible Textus Receptus  *)
(* importer.  Characters are Unicode code points (integers), strings are   *)
(* sequences of code points.                                               *)
(***************************************************************************)
EXTENDS Integers, Sequences, FiniteSets, TLC

VARIABLES
  pc,            \* where the run stands
  text,          \* input of normalizeGreek / computeGreek
  normalized,    \* normalizeGreek(text)
  renormalized,  \* normalizeGreek(normalized)
  gem,           \* computeGreek(text)
  variant,       \* text with marks layered on
  gemVariant,    \* computeGreek(variant)
  rows,          \* main: allRows, as read from the Parquet file
  trRows,        \* main: the rows filterToTR kept
  verses,        \* main: groupByVerse's map, in insertion order
  count,         \* main: verses saved so far
  files          \* the verse files written under DATA_DIR, by path

gematriaVars == <<text, normalized, renormalized, gem, variant, gemVariant>>
importVars == <<rows, trRows, verses, count, files>>
vars == <<pc, text, normalized, renormalized, gem, variant, gemVariant,
          rows, trRows, verses, count, files>>

(***************************************************************************)
(* Bounds of the model.                                                    *)
(***************************************************************************)
\* longest input string drawn from Alphabet
MaxLen == 3
\* longest base word on which every combination of accents is layered
MaxWordLen == 2
\* most rows in the table the importer reads
MaxRows == 3

(***************************************************************************)
(* The two static tables (import.ts:39-49), keyed by code point.           *)
(***************************************************************************)
\* the letter-value table without the final form of sigma
GREEK_VALUES_NoFinalSigma ==
  (945 :> 1) @@ (946 :> 2) @@ (947 :> 3) @@ (948 :> 4) @@ (949 :> 5) @@
  (987 :> 6) @@ (950 :> 7) @@ (951 :> 8) @@ (952 :> 9) @@
  (953 :> 10) @@ (954 :> 20) @@ (955 :> 30) @@ (956 :> 40) @@ (957 :> 50) @@
  (958 :> 60) @@ (959 :> 70) @@ (960 :> 80) @@ (991 :> 90) @@
  (961 :> 100) @@ (963 :> 200) @@ (964 :> 300) @@
  (965 :> 400) @@ (966 :> 500) @@ (967 :> 600) @@ (968 :> 700) @@
  (969 :> 800) @@ (993 :> 900)

GREEK_VALUES ==
  (945 :> 1) @@ (946 :> 2) @@ (947 :> 3) @@ (948 :> 4) @@ (949 :> 5) @@
  (987 :> 6) @@ (950 :> 7) @@ (951 :> 8) @@ (952 :> 9) @@
  (953 :> 10) @@ (954 :> 20) @@ (955 :> 30) @@ (956 :> 40) @@ (957 :> 50) @@
  (958 :> 60) @@ (959 :> 70) @@ (960 :> 80) @@ (991 :> 90) @@
  (961 :> 100) @@ (963 :> 200) @@ (962 :> 200) @@ (964 :> 300) @@
  (965 :> 400) @@ (966 :> 500) @@ (967 :> 600) @@ (968 :> 700) @@
  (969 :> 800) @@ (993 :> 900)

\* the ordinal table numbered by code point, final sigma counted as a letter
GREEK_ORDINAL_ByCodePoint == [c \in 945..969 |-> c - 944]

GREEK_ORDINAL ==
  (945 :> 1) @@ (946 :> 2) @@ (947 :> 3) @@ (948 :> 4) @@ (949 :> 5) @@
  (950 :> 6) @@ (951 :> 7) @@ (952 :> 8) @@
  (953 :> 9) @@ (954 :> 10) @@ (955 :> 11) @@ (956 :> 12) @@ (957 :> 13) @@
  (958 :> 14) @@ (959 :> 15) @@ (960 :> 16) @@
  (961 :> 17) @@ (963 :> 18) @@ (962 :> 18) @@ (964 :> 19) @@
  (965 :> 20) @@ (966 :> 21) @@ (967 :> 22) @@ (968 :> 23) @@ (969 :> 24)

(***************************************************************************)
(* String.prototype.normalize('NFD') (import.ts:86): canonical             *)
(* decomposition of each code point followed by canonical reordering of    *)
(* the combining marks by combining class.                                 *)
(***************************************************************************)
\* Canonical_Combining_Class of the code points the model draws from;
\* every other code point of the model is a starter (class 0).
CombiningClass(c) ==
  CASE c \in {768, 769, 787, 788, 834} -> 230   \* grave, acute, psili, dasia, perispomeni
    [] c = 837  -> 240                          \* U+0345 ypogegrammeni (iota subscript)
    [] c = 847  -> 0                            \* U+034F combining grapheme joiner
    [] c = 1425 -> 220                          \* U+0591, a mark below, outside U+0300..U+036F
    [] c = 8400 -> 230                          \* U+20D0, a mark above, outside U+0300..U+036F
    [] OTHER -> 0

\* Full canonical decomposition of one code point.
Decompose(c) ==
  CASE c = 940  -> <<945, 769>>          \* U+03AC alpha with tonos
    [] c = 942  -> <<951, 769>>          \* U+03AE eta with tonos
    [] c = 972  -> <<959, 769>>          \* U+03CC omicron with tonos
    [] c = 974  -> <<969, 769>>          \* U+03CE omega with tonos
    [] c = 7936 -> <<945, 787>>          \* U+1F00 alpha with psili
    [] c = 7960 -> <<917, 787>>          \* U+1F18 capital epsilon with psili
    [] c = 8115 -> <<945, 837>>          \* U+1FB3 alpha with ypogegrammeni
    [] c = 8131 -> <<951, 837>>          \* U+1FC3 eta with ypogegrammeni
    [] c = 8179 -> <<969, 837>>          \* U+1FF3 omega with ypogegrammeni
    [] c = 8135 -> <<951, 834, 837>>     \* U+1FC7 eta with perispomeni and ypogegrammeni
    [] c = 8183 -> <<969, 834, 837>>     \* U+1FF7 omega with perispomeni and ypogegrammeni
    [] c = 8124 -> <<913, 837>>          \* U+1FBC capital alpha with prosgegrammeni
    [] OTHER -> <<c>>

RECURSIVE DecomposeAll(_)
DecomposeAll(s) ==
  IF s = <<>> THEN <<>> ELSE Decompose(Head(s)) \o DecomposeAll(Tail(s))

\* Insert mark c into an already ordered run: it moves left past every mark
\* of a strictly greater class, and never past a starter.
RECURSIVE InsertMark(_, _)
InsertMark(run, c) ==
  IF run # <<>> /\ CombiningClass(c) > 0
     /\ CombiningClass(run[Len(run)]) > CombiningClass(c)
  THEN Append(InsertMark(SubSeq(run, 1, Len(run) - 1), c), run[Len(run)])
  ELSE Append(run, c)

RECURSIVE CanonicalOrder(_, _)
CanonicalOrder(done, rest) ==
  IF rest = <<>> THEN done
  ELSE CanonicalOrder(InsertMark(done, Head(rest)), Tail(rest))

\* reordering without decomposition
NFD_NoDecomposition(s) == CanonicalOrder(<<>>, s)

NFD(s) == CanonicalOrder(<<>>, DecomposeAll(s))

(***************************************************************************)
(* .replace(/\u0345/g, 'ι') and .replace(/[\u0300-\u036f]/g, '')          *)
(* (import.ts:87-88).                                                      *)
(***************************************************************************)
RECURSIVE ReplaceIotaSubscript(_)
ReplaceIotaSubscript(s) ==
  IF s = <<>> THEN <<>>
  ELSE <<(IF Head(s) = 837 THEN 953 ELSE Head(s))>> \o ReplaceIotaSubscript(Tail(s))

RECURSIVE StripCombiningMarks(_)
StripCombiningMarks(s) ==
  IF s = <<>> THEN <<>>
  ELSE (IF Head(s) >= 768 /\ Head(s) <= 879 THEN <<>> ELSE <<Head(s)>>)
       \o StripCombiningMarks(Tail(s))

(***************************************************************************)
(* String.prototype.toLowerCase (import.ts:89): the simple lower-case      *)
(* mapping of each code point, with the one context-sensitive rule of      *)
(* Unicode SpecialCasing, Final_Sigma.                                     *)
(***************************************************************************)
Cased(c) ==
  \/ c \in 65..90 \/ c \in 97..122
  \/ (c \in 913..937 /\ c # 930) \/ c \in 945..969
  \/ c \in 986..993

CaseIgnorable(c) ==
  \/ c \in 768..879 \/ c \in {1425, 8400}     \* nonspacing marks
  \/ c \in {39, 46, 58, 183}                  \* ' . : and the middle dot

SimpleLower(c) ==
  IF c \in 65..90 \/ (c \in 913..937 /\ c # 930) THEN c + 32
  ELSE IF c \in {986, 988, 990, 992} THEN c + 1
  ELSE c

\* Σ at position i becomes ς when a cased letter precedes it (case-ignorable
\* characters in between skipped) and no cased letter follows it likewise.
FinalSigma(s, i) ==
  /\ \E j \in 1..(i - 1) :
       /\ Cased(s[j])
       /\ \A k \in (j + 1)..(i - 1) : CaseIgnorable(s[k])
  /\ ~ \E j \in (i + 1)..Len(s) :
       /\ Cased(s[j])
       /\ \A k \in (i + 1)..(j - 1) : CaseIgnorable(s[k])

ToLowerCase(s) ==
  [i \in 1..Len(s) |->
     IF s[i] = 931 THEN (IF FinalSigma(s, i) THEN 962 ELSE 963)
     ELSE SimpleLower(s[i])]

(***************************************************************************)
(* normalizeGreek (import.ts:81-90).                                       *)
(***************************************************************************)
\* the two replace calls in the other order
normalizeGreek_StripFirst(t) ==
  ToLowerCase(ReplaceIotaSubscript(StripCombiningMarks(NFD(t))))

normalizeGreek(t) ==
  ToLowerCase(StripCombiningMarks(ReplaceIotaSubscript(NFD(t))))

(***************************************************************************)
(* computeGreek (import.ts:95-124).                                        *)
(***************************************************************************)
\* inner loop, import.ts:112-116: sum of the base-10 digits of val
RECURSIVE SumDigits(_)
SumDigits(val) ==
  IF val > 0 THEN (val % 10) + SumDigits(val \div 10) ELSE 0

\* a single pass of digit summing
ReduceOrdinal_OnePass(val) ==
  IF val > 9 THEN SumDigits(val) ELSE val

\* outer loop, import.ts:110-118: repeat while val > 9
RECURSIVE ReduceOrdinal(_)
ReduceOrdinal(val) ==
  IF val > 9 THEN ReduceOrdinal(SumDigits(val)) ELSE val

\* the standard value added only inside the ordinal branch
AddChar_Nested(acc, char) ==
  LET ordHit == char \in DOMAIN GREEK_ORDINAL
  IN [standard |-> IF ordHit THEN acc.standard + GREEK_VALUES[char] ELSE acc.standard,
      ordinal  |-> IF ordHit THEN acc.ordinal + GREEK_ORDINAL[char] ELSE acc.ordinal,
      reduced  |-> IF ordHit THEN acc.reduced + ReduceOrdinal(GREEK_ORDINAL[char])
                   ELSE acc.reduced]

\* no test for undefined: a character missing from the letter-value table
\* spoils the sum (the non-number is written -1)
AddChar_Unguarded(acc, char) ==
  LET stdHit == char \in DOMAIN GREEK_VALUES
      ordHit == char \in DOMAIN GREEK_ORDINAL
  IN [standard |-> IF stdHit /\ acc.standard >= 0
                   THEN acc.standard + GREEK_VALUES[char] ELSE -1,
      ordinal  |-> IF ordHit THEN acc.ordinal + GREEK_ORDINAL[char] ELSE acc.ordinal,
      reduced  |-> IF ordHit THEN acc.reduced + ReduceOrdinal(GREEK_ORDINAL[char])
                   ELSE acc.reduced]

\* the two tables taken for each other
AddChar_TablesSwapped(acc, char) ==
  LET stdHit == char \in DOMAIN GREEK_VALUES
      ordHit == char \in DOMAIN GREEK_ORDINAL
  IN [standard |-> IF ordHit THEN acc.standard + GREEK_ORDINAL[char] ELSE acc.standard,
      ordinal  |-> IF stdHit THEN acc.ordinal + GREEK_VALUES[char] ELSE acc.ordinal,
      reduced  |-> IF ordHit THEN acc.reduced + ReduceOrdinal(GREEK_ORDINAL[char])
                   ELSE acc.reduced]

\* one iteration of the for loop, import.ts:101-121
AddChar(acc, char) ==
  LET stdHit == char \in DOMAIN GREEK_VALUES
      ordHit == char \in DOMAIN GREEK_ORDINAL
  IN [standard |-> IF stdHit THEN acc.standard + GREEK_VALUES[char] ELSE acc.standard,
      ordinal  |-> IF ordHit THEN acc.ordinal + GREEK_ORDINAL[char] ELSE acc.ordinal,
      reduced  |-> IF ordHit THEN acc.reduced + ReduceOrdinal(GREEK_ORDINAL[char])
                   ELSE acc.reduced]

RECURSIVE GematriaLoop(_, _)
GematriaLoop(acc, rest) ==
  IF rest = <<>> THEN acc ELSE GematriaLoop(AddChar(acc, Head(rest)), Tail(rest))

ZeroGematria == [standard |-> 0, ordinal |-> 0, reduced |-> 0]

computeGreek(t) == GematriaLoop(ZeroGematria, normalizeGreek(t))

(***************************************************************************)
(* Inputs of the pure functions.                                           *)
(***************************************************************************)
\* α ο σ τ, capital Σ, stigma, comma, space, Latin a, the combining acute,
\* iota subscript and grapheme joiner, two marks outside U+0300..U+036F,
\* and precomposed ό and ᾳ
Alphabet ==
  {945, 959, 963, 964, 931, 987, 44, 32, 97,
   769, 837, 847, 1425, 8400, 972, 8115}

SeqsUpTo(S, n) == UNION {[1..k -> S] : k \in 0..n}

Logos == <<955, 972, 947, 959, 962>>          \* λόγος
LogosPlain == <<955, 959, 947, 959, 962>>     \* λογος
En == <<7960, 957>>                           \* Ἐν
Arche == <<7936, 961, 967, 8135>>             \* ἀρχῇ
ArchePlain == <<7936, 961, 967, 951>>         \* ἀρχη
Toi == <<964, 8183>>                          \* τῷ

KnownWords == {Logos, LogosPlain, En, Arche, ArchePlain, Toi}

Texts == SeqsUpTo(Alphabet, MaxLen) \cup KnownWords

\* the letters of the tables, in either case
BaseLetters == DOMAIN GREEK_VALUES \cup {c \in 913..937 : c # 930}

IsBaseWord(t) == t # <<>> /\ \A i \in DOMAIN t : t[i] \in BaseLetters

\* a code point that decomposes to a letter of the tables, bare or marked
IsGreekLetter(c) == Decompose(c)[1] \in BaseLetters

IsMark(c) == c \in 768..879 \/ c \in {1425, 8400}

PunctuationAndSpace == {32, 44, 46, 59, 183}

\* The ways one letter can carry accents and breathings: an optional
\* breathing (psili, dasia) followed by an optional accent (grave, acute,
\* perispomeni) as combining marks, or a precomposed code point.
Breathings == {<<>>, <<787>>, <<788>>}
Accents == {<<>>, <<768>>, <<769>>, <<834>>}

Accentings(c) ==
  {<<c>> \o b \o a : <<b, a>> \in Breathings \X Accents}
  \cup (IF c = 945 THEN {<<940>>, <<7936>>, <<7936, 769>>}
        ELSE IF c = 951 THEN {<<942>>}
        ELSE IF c = 959 THEN {<<972>>}
        ELSE IF c = 969 THEN {<<974>>}
        ELSE {})

RECURSIVE Flatten(_)
Flatten(ss) == IF ss = <<>> THEN <<>> ELSE Head(ss) \o Flatten(Tail(ss))

AccentedVariants(t) ==
  {Flatten(choice) :
     choice \in {f \in [DOMAIN t -> UNION {Accentings(t[i]) : i \in DOMAIN t}] :
                   \A i \in DOMAIN t : f[i] \in Accentings(t[i])}}

\* t with U+0345 put on the letter at position i, after k of its marks
InsertSubscript(t, i, k) ==
  SubSeq(t, 1, i + k) \o <<837>> \o SubSeq(t, i + k + 1, Len(t))

\* t with the letter at position i replaced by its precomposed form
PrecomposedSubscript(c) ==
  CASE c = 945 -> 8115 [] c = 951 -> 8131 [] c = 969 -> 8179 [] OTHER -> c

SubscriptVariants(t) ==
  {InsertSubscript(t, i, k) : <<i, k>> \in
     {p \in (DOMAIN t) \X (0..Len(t)) :
        /\ IsGreekLetter(t[p[1]])
        /\ p[1] + p[2] <= Len(t)
        /\ \A j \in (p[1] + 1)..(p[1] + p[2]) : IsMark(t[j])}}
  \cup {[t EXCEPT ![i] = PrecomposedSubscript(t[i])] :
          i \in {j \in DOMAIN t : PrecomposedSubscript(t[j]) # t[j]}}

InitGematria ==
  /\ pc = "start"
  /\ text \in Texts
  /\ normalized = <<>>
  /\ renormalized = <<>>
  /\ gem = ZeroGematria
  /\ variant = <<>>
  /\ gemVariant = ZeroGematria
  /\ rows = <<>>
  /\ trRows = <<>>
  /\ verses = <<>>
  /\ count = 0
  /\ files = <<>>

\* normalizeGreek(text) and computeGreek(text)
ComputeText ==
  /\ pc = "start"
  /\ normalized' = normalizeGreek(text)
  /\ gem' = computeGreek(text)
  /\ pc' = "computed"
  /\ UNCHANGED <<text, renormalized, variant, gemVariant>>
  /\ UNCHANGED importVars

\* normalizeGreek applied to its own output
Renormalize ==
  /\ pc = "computed"
  /\ renormalized' = normalizeGreek(normalized)
  /\ pc' = "renormalized"
  /\ UNCHANGED <<text, normalized, gem, variant, gemVariant>>
  /\ UNCHANGED importVars

\* computeGreek of the same word with accents and breathings layered on
ComputeAccented ==
  /\ pc = "computed"
  /\ IsBaseWord(text)
  /\ Len(text) <= MaxWordLen
  /\ variant' \in AccentedVariants(text)
  /\ gemVariant' = computeGreek(variant')
  /\ pc' = "accented"
  /\ UNCHANGED <<text, normalized, renormalized, gem>>
  /\ UNCHANGED importVars

\* computeGreek of the same text with an iota subscript put on one letter
ComputeSubscripted ==
  /\ pc = "computed"
  /\ variant' \in SubscriptVariants(text)
  /\ gemVariant' = computeGreek(variant')
  /\ pc' = "subscripted"
  /\ UNCHANGED <<text, normalized, renormalized, gem>>
  /\ UNCHANGED importVars

NextGematria ==
  \/ ComputeText
  \/ Renormalize
  \/ ComputeAccented
  \/ ComputeSubscripted

SpecGematria == InitGematria /\ [][NextGematria]_vars

(***************************************************************************)
(* The import pipeline (import.ts:231-427).  Optional values are           *)
(* sequences of length at most one: Null for null / undefined, Some(v).    *)
(***************************************************************************)
Null == <<>>
Some(v) == <<v>>

BOOK_MAP ==
  (<<77, 97, 116>> :> <<77, 97, 116, 116>>) @@                 \* Mat -> Matt
  (<<77, 114, 107>> :> <<77, 97, 114, 107>>) @@                \* Mrk -> Mark
  (<<76, 117, 107>> :> <<76, 117, 107, 101>>) @@               \* Luk -> Luke
  (<<74, 104, 110>> :> <<74, 111, 104, 110>>) @@               \* Jhn -> John
  (<<65, 99, 116>> :> <<65, 99, 116, 115>>) @@                 \* Act -> Acts
  (<<82, 111, 109>> :> <<82, 111, 109>>) @@                    \* Rom -> Rom
  (<<49, 67, 111>> :> <<49, 67, 111, 114>>) @@                 \* 1Co -> 1Cor
  (<<50, 67, 111>> :> <<50, 67, 111, 114>>) @@                 \* 2Co -> 2Cor
  (<<71, 97, 108>> :> <<71, 97, 108>>) @@                      \* Gal -> Gal
  (<<69, 112, 104>> :> <<69, 112, 104>>) @@                    \* Eph -> Eph
  (<<80, 104, 112>> :> <<80, 104, 105, 108>>) @@               \* Php -> Phil
  (<<67, 111, 108>> :> <<67, 111, 108>>) @@                    \* Col -> Col
  (<<49, 84, 104>> :> <<49, 84, 104, 101, 115, 115>>) @@       \* 1Th -> 1Thess
  (<<50, 84, 104>> :> <<50, 84, 104, 101, 115, 115>>) @@       \* 2Th -> 2Thess
  (<<49, 84, 105>> :> <<49, 84, 105, 109>>) @@                 \* 1Ti -> 1Tim
  (<<50, 84, 105>> :> <<50, 84, 105, 109>>) @@                 \* 2Ti -> 2Tim
  (<<84, 105, 116>> :> <<84, 105, 116, 117, 115>>) @@          \* Tit -> Titus
  (<<80, 104, 109>> :> <<80, 104, 108, 109>>) @@               \* Phm -> Phlm
  (<<72, 101, 98>> :> <<72, 101, 98>>) @@                      \* Heb -> Heb
  (<<74, 97, 115>> :> <<74, 97, 115>>) @@                      \* Jas -> Jas
  (<<49, 80, 101>> :> <<49, 80, 101, 116>>) @@                 \* 1Pe -> 1Pet
  (<<50, 80, 101>> :> <<50, 80, 101, 116>>) @@                 \* 2Pe -> 2Pet
  (<<49, 74, 110>> :> <<49, 74, 111, 104, 110>>) @@            \* 1Jn -> 1John
  (<<50, 74, 110>> :> <<50, 74, 111, 104, 110>>) @@            \* 2Jn -> 2John
  (<<51, 74, 110>> :> <<51, 74, 111, 104, 110>>) @@            \* 3Jn -> 3John
  (<<74, 117, 100>> :> <<74, 117, 100, 101>>) @@               \* Jud -> Jude
  (<<82, 101, 118>> :> <<82, 101, 118>>)                       \* Rev -> Rev

\* a search that ignores the case of the letter
Includes_IgnoreCase(s, c) == \E i \in DOMAIN s : s[i] = c \/ s[i] = c + 32

\* String.prototype.includes('K') on manuscript_source, and Array.filter
Includes(s, c) == \E i \in DOMAIN s : s[i] = c

RECURSIVE filterToTR(_)
filterToTR(rs) ==
  IF rs = <<>> THEN <<>>
  ELSE (IF Includes(Head(rs).manuscript_source, 75) THEN <<Head(rs)>> ELSE <<>>)
       \o filterToTR(Tail(rs))

\* character classes of the regular expressions
IsDigit(c) == c \in 48..57                                   \* \d
IsWordChar(c) == c \in 48..57 \/ c \in 65..90 \/ c \in 97..122 \/ c = 95    \* \w
IsLineTerminator(c) == c \in {10, 13, 8232, 8233}            \* what . excludes
IsSpace(c) ==                                                \* \s
  c \in {9, 10, 11, 12, 13, 32, 160, 5760, 8232, 8233, 8239, 8287, 12288, 65279}
  \/ c \in 8192..8202

\* the fields of s between occurrences of sep
RECURSIVE Split(_, _, _)
Split(s, sep, field) ==
  IF s = <<>> THEN <<field>>
  ELSE IF Head(s) = sep THEN <<field>> \o Split(Tail(s), sep, <<>>)
  ELSE Split(Tail(s), sep, Append(field, Head(s)))

\* the digits read in base 8
RECURSIVE parseInt_Octal(_)
parseInt_Octal(digits) ==
  IF digits = <<>> THEN 0
  ELSE 8 * parseInt_Octal(SubSeq(digits, 1, Len(digits) - 1)) + (digits[Len(digits)] - 48)

\* parseInt(digits, 10) of a string of decimal digits
RECURSIVE parseInt(_)
parseInt(digits) ==
  IF digits = <<>> THEN 0
  ELSE 10 * parseInt(SubSeq(digits, 1, Len(digits) - 1)) + (digits[Len(digits)] - 48)

\* the decimal string of a natural number, as a template literal prints it
RECURSIVE ToDecimal(_)
ToDecimal(n) ==
  IF n < 10 THEN <<48 + n>> ELSE Append(ToDecimal(n \div 10), 48 + (n % 10))

AllDigits(s) == s # <<>> /\ \A i \in DOMAIN s : IsDigit(s[i])

\* parseReference (import.ts:245-258): /^(\w+)\.(\d+)\.(\d+)\.(\d+)$/
parseReference(ref) ==
  LET fields == Split(ref, 46, <<>>)
  IN IF /\ Len(fields) = 4
        /\ fields[1] # <<>>
        /\ \A i \in DOMAIN fields[1] : IsWordChar(fields[1][i])
        /\ AllDigits(fields[2]) /\ AllDigits(fields[3]) /\ AllDigits(fields[4])
     THEN Some([book     |-> IF fields[1] \in DOMAIN BOOK_MAP
                             THEN BOOK_MAP[fields[1]] ELSE fields[1],
                chapter  |-> parseInt(fields[2]),
                verse    |-> parseInt(fields[3]),
                position |-> parseInt(fields[4])])
     ELSE Null

\* length of the run of digits at the start of s
RECURSIVE DigitRun(_)
DigitRun(s) ==
  IF s # <<>> /\ IsDigit(Head(s)) THEN 1 + DigitRun(Tail(s)) ELSE 0

Robinson == <<114, 111, 98, 105, 110, 115, 111, 110, 58>>    \* "robinson:"

\* parseDStrongs (import.ts:264-276): /^G(\d+)=(.+)$/
parseDStrongs(dStrongs) ==
  LET n == IF dStrongs # <<>> /\ dStrongs[1] = 71 THEN DigitRun(Tail(dStrongs)) ELSE 0
      num == SubSeq(dStrongs, 2, n + 1)
      morph == SubSeq(dStrongs, n + 3, Len(dStrongs))
  IN IF /\ n >= 1
        /\ Len(dStrongs) >= n + 3
        /\ dStrongs[n + 2] = 61
        /\ \A i \in DOMAIN morph : ~IsLineTerminator(morph[i])
     THEN Some([strongs |-> <<71>> \o ToDecimal(parseInt(num)),
                morph   |-> Robinson \o morph])
     ELSE Null

\* the word entry groupByVerse builds from one row (import.ts:299-310)
WordEntryOf(row, ref) ==
  LET parsed == parseDStrongs(row.dStrongs)
  IN [position    |-> ref.position,
      text        |-> row.text,
      lemma       |-> IF parsed # Null THEN Some(<<parsed[1].strongs>>) ELSE Null,
      strongs     |-> IF parsed # Null THEN Some(parsed[1].strongs) ELSE Null,
      morph       |-> IF parsed # Null THEN Some(parsed[1].morph) ELSE Null,
      translation |-> row.translation,
      metadata    |-> <<>>,
      gematria    |-> computeGreek(row.text)]

\* a key of chapter and verse only
VerseKey_NoBook(ref) == ToDecimal(ref.chapter) \o <<46>> \o ToDecimal(ref.verse)

\* `${ref.book}.${ref.chapter}.${ref.verse}`
VerseKey(ref) ==
  ref.book \o <<46>> \o ToDecimal(ref.chapter) \o <<46>> \o ToDecimal(ref.verse)

\* verses.get(verseKey).words.push(entry), creating the verse when it is new
PushWord(vs, ref, entry) ==
  IF \E i \in DOMAIN vs : vs[i].key = VerseKey(ref)
  THEN [i \in DOMAIN vs |->
          IF vs[i].key = VerseKey(ref)
          THEN [vs[i] EXCEPT !.words = Append(@, entry)] ELSE vs[i]]
  ELSE Append(vs, [key |-> VerseKey(ref), book |-> ref.book, chapter |-> ref.chapter,
                   verse |-> ref.verse, words |-> <<entry>>])

\* the loop over the rows (import.ts:284-313)
RECURSIVE CollectRows(_, _)
CollectRows(vs, rs) ==
  IF rs = <<>> THEN vs
  ELSE LET ref == parseReference(Head(rs).reference)
       IN IF ref = Null THEN CollectRows(vs, Tail(rs))
          ELSE CollectRows(PushWord(vs, ref[1], WordEntryOf(Head(rs), ref[1])), Tail(rs))

\* Array.prototype.sort((a, b) => a.position - b.position): a stable sort
RECURSIVE InsertByPosition(_, _)
InsertByPosition(sorted, w) ==
  IF sorted # <<>> /\ sorted[Len(sorted)].position > w.position
  THEN Append(InsertByPosition(SubSeq(sorted, 1, Len(sorted) - 1), w), sorted[Len(sorted)])
  ELSE Append(sorted, w)

\* the words left in the order they were pushed
SortByPosition_Unsorted(sorted, ws) == sorted \o ws

RECURSIVE SortByPosition(_, _)
SortByPosition(sorted, ws) ==
  IF ws = <<>> THEN sorted
  ELSE SortByPosition(InsertByPosition(sorted, Head(ws)), Tail(ws))

\* words.forEach((w, i) => { w.position = i + 1; })
Renumber(ws) == [i \in DOMAIN ws |-> [ws[i] EXCEPT !.position = i]]

\* groupByVerse (import.ts:281-323)
groupByVerse(rs) ==
  LET collected == CollectRows(<<>>, rs)
  IN [i \in DOMAIN collected |->
        [collected[i] EXCEPT !.words = Renumber(SortByPosition(<<>>, @))]]

\* words.map(w => w.text).join(' ')
RECURSIVE JoinTexts(_)
JoinTexts(ws) ==
  IF ws = <<>> THEN <<>>
  ELSE IF Len(ws) = 1 THEN ws[1].text
  ELSE ws[1].text \o <<32>> \o JoinTexts(Tail(ws))

IsVersePunctuation(c) == c \in {44, 46, 59, 58, 33, 63, 183}     \* , . ; : ! ? and the middle dot

RECURSIVE SpaceRun(_)
SpaceRun(s) == IF s # <<>> /\ IsSpace(Head(s)) THEN 1 + SpaceRun(Tail(s)) ELSE 0

\* text.replace(/\s+([,.;:!?·])/g, '$1')
RECURSIVE CleanPunctuationSpacing(_)
CleanPunctuationSpacing(s) ==
  IF s = <<>> THEN <<>>
  ELSE LET n == SpaceRun(s)
       IN IF n >= 1 /\ Len(s) > n /\ IsVersePunctuation(s[n + 1])
          THEN <<s[n + 1]>> \o CleanPunctuationSpacing(SubSeq(s, n + 2, Len(s)))
          ELSE <<Head(s)>> \o CleanPunctuationSpacing(Tail(s))

\* the keys of a gematria record in the order Object.entries lists them
GematriaKeys == <<"standard", "ordinal", "reduced">>

\* totals[k] = v: the last word's value instead of the running sum
AddEntry_Assign(totals, k, v) ==
  IF k \in DOMAIN totals THEN [totals EXCEPT ![k] = v] ELSE (k :> v) @@ totals

\* totals[k] = (totals[k] || 0) + v (import.ts:341)
AddEntry(totals, k, v) ==
  IF k \in DOMAIN totals THEN [totals EXCEPT ![k] = @ + v] ELSE (k :> (0 + v)) @@ totals

RECURSIVE AddEntries(_, _, _)
AddEntries(totals, gematria, keys) ==
  IF keys = <<>> THEN totals
  ELSE AddEntries(AddEntry(totals, Head(keys), gematria[Head(keys)]), gematria, Tail(keys))

\* the loops of import.ts:338-343, starting from the empty object
RECURSIVE SumGematria(_, _)
SumGematria(totals, ws) ==
  IF ws = <<>> THEN totals
  ELSE SumGematria(AddEntries(totals, Head(ws).gematria, GematriaKeys), Tail(ws))

\* the VerseData saveVerse writes (import.ts:328-353)
VerseDataOf(ws) ==
  [text     |-> CleanPunctuationSpacing(JoinTexts(ws)),
   words    |-> ws,
   gematria |-> SumGematria(<<>>, ws)]

\* join(DATA_DIR, book, String(chapter)) and `${verse}.json`
VersePath(v) == <<v.book, v.chapter, v.verse>>

(***************************************************************************)
(* The rows read from the Parquet file.                                    *)
(***************************************************************************)
Row(ref, txt, gloss, ds, ms) ==
  [reference |-> ref, text |-> txt, translation |-> gloss,
   dStrongs |-> ds, manuscript_source |-> ms]

SampleRows ==
  { \* Jhn.1.1.01  Ἐν  In  G1722=PREP  NKO
    Row(<<74, 104, 110, 46, 49, 46, 49, 46, 48, 49>>, En, <<73, 110>>,
        <<71, 49, 55, 50, 50, 61, 80, 82, 69, 80>>, <<78, 75, 79>>),
    \* Jhn.1.1.02  ἀρχῇ  G0746=N-DSF  K
    Row(<<74, 104, 110, 46, 49, 46, 49, 46, 48, 50>>, Arche, <<>>,
        <<71, 48, 55, 52, 54, 61, 78, 45, 68, 83, 70>>, <<75>>),
    \* Jhn.1.1.05  λόγος  G3056=N-NSM  nKo
    Row(<<74, 104, 110, 46, 49, 46, 49, 46, 48, 53>>, Logos, <<>>,
        <<71, 51, 48, 53, 54, 61, 78, 45, 78, 83, 77>>, <<110, 75, 111>>),
    \* Jhn.1.1.03  τῷ  G3588=T-DSM  NO
    Row(<<74, 104, 110, 46, 49, 46, 49, 46, 48, 51>>, Toi, <<>>,
        <<71, 51, 53, 56, 56, 61, 84, 45, 68, 83, 77>>, <<78, 79>>),
    \* Mat.1.1.01  Ἐν  G2424G=N-NSM-P  NK
    Row(<<77, 97, 116, 46, 49, 46, 49, 46, 48, 49>>, En, <<>>,
        <<71, 50, 52, 50, 52, 71, 61, 78, 45, 78, 83, 77, 45, 80>>, <<78, 75>>),
    \* Mat.1.2.01  ,  (no tag)  KO
    Row(<<77, 97, 116, 46, 49, 46, 50, 46, 48, 49>>, <<44>>, <<>>,
        <<>>, <<75, 79>>),
    \* Mat.1.1  λόγος  G3056=N-NSM  K   (a reference of three fields)
    Row(<<77, 97, 116, 46, 49, 46, 49>>, Logos, <<>>,
        <<71, 51, 48, 53, 54, 61, 78, 45, 78, 83, 77>>, <<75>>),
    \* Xyz.1.1.01  τῷ  G00001=CONJ  K   (a book BOOK_MAP does not list)
    Row(<<88, 121, 122, 46, 49, 46, 49, 46, 48, 49>>, Toi, <<>>,
        <<71, 48, 48, 48, 48, 49, 61, 67, 79, 78, 74>>, <<75>>),
    \* Jhn.1.1.04  ἀρχη  G0746=N-DSF  nko   (a lower-case k only)
    Row(<<74, 104, 110, 46, 49, 46, 49, 46, 48, 52>>, ArchePlain, <<>>,
        <<71, 48, 55, 52, 54, 61, 78, 45, 68, 83, 70>>, <<110, 107, 111>>),
    \* John.01.1.04  λογος  G3056=N-NSM  K   (the mapped name, a leading zero)
    Row(<<74, 111, 104, 110, 46, 48, 49, 46, 49, 46, 48, 52>>, LogosPlain, <<>>,
        <<71, 51, 48, 53, 54, 61, 78, 45, 78, 83, 77>>, <<75>>),
    \* Rev.22.21.15  τῷ  G3588=T-DSM  K
    Row(<<82, 101, 118, 46, 50, 50, 46, 50, 49, 46, 49, 53>>, Toi, <<>>,
        <<71, 51, 53, 56, 56, 61, 84, 45, 68, 83, 77>>, <<75>>),
    \* invalid  Ἐν  G1722=PREP  K
    Row(<<105, 110, 118, 97, 108, 105, 100>>, En, <<>>,
        <<71, 49, 55, 50, 50, 61, 80, 82, 69, 80>>, <<75>>),
    \* Mat.1.1.1.1  λογος  G3056=N-NSM  K   (five fields)
    Row(<<77, 97, 116, 46, 49, 46, 49, 46, 49, 46, 49>>, LogosPlain, <<>>,
        <<71, 51, 48, 53, 54, 61, 78, 45, 78, 83, 77>>, <<75>>),
    \* Mat.1.x.01  ἀρχη  G0746=N-DSF  K   (a field that is not a number)
    Row(<<77, 97, 116, 46, 49, 46, 120, 46, 48, 49>>, ArchePlain, <<>>,
        <<71, 48, 55, 52, 54, 61, 78, 45, 68, 83, 70>>, <<75>>) }

(***************************************************************************)
(* main (import.ts:388-427).                                               *)
(***************************************************************************)
Init ==
  /\ pc = "read"
  /\ rows \in SeqsUpTo(SampleRows, MaxRows)
  /\ trRows = <<>>
  /\ verses = <<>>
  /\ count = 0
  /\ files = <<>>
  /\ text = <<>>
  /\ normalized = <<>>
  /\ renormalized = <<>>
  /\ gem = ZeroGematria
  /\ variant = <<>>
  /\ gemVariant = ZeroGematria

\* const trRows = filterToTR(allRows)
FilterToTR ==
  /\ pc = "read"
  /\ trRows' = filterToTR(rows)
  /\ pc' = "filtered"
  /\ UNCHANGED <<rows, verses, count, files>>
  /\ UNCHANGED gematriaVars

\* const verses = groupByVerse(trRows)
GroupByVerse ==
  /\ pc = "filtered"
  /\ verses' = groupByVerse(trRows)
  /\ pc' = "saving"
  /\ UNCHANGED <<rows, trRows, count, files>>
  /\ UNCHANGED gematriaVars

\* one turn of the loop over the verses: await saveVerse(...); count++
SaveVerse ==
  /\ pc = "saving"
  /\ count < Len(verses)
  /\ LET v == verses[count + 1]
     IN files' = (VersePath(v) :> VerseDataOf(v.words)) @@ files
  /\ count' = count + 1
  /\ UNCHANGED <<pc, rows, trRows, verses>>
  /\ UNCHANGED gematriaVars

\* after the loop: saveMetadata and the closing log lines
SaveMetadata ==
  /\ pc = "saving"
  /\ count = Len(verses)
  /\ pc' = "done"
  /\ UNCHANGED importVars
  /\ UNCHANGED gematriaVars

\* mkdir or writeFile rejects: the catch block logs and exits with status 1
ImportFailed ==
  /\ pc = "saving"
  /\ pc' = "failed"
  /\ UNCHANGED importVars
  /\ UNCHANGED gematriaVars

Next ==
  \/ FilterToTR
  \/ GroupByVerse
  \/ SaveVerse
  \/ SaveMetadata
  \/ ImportFailed

Spec == Init /\ [][Next]_vars

(***************************************************************************)
(* Properties of normalizeGreek and computeGreek, checked under            *)
(* SpecGematria.                                                           *)
(***************************************************************************)
Count(s, c) == Cardinality({i \in DOMAIN s : s[i] = c})

\* sum over the letters of table[c] times the occurrences of c in s
RECURSIVE WeightedCount(_, _, _)
WeightedCount(s, table, letters) ==
  IF letters = {} THEN 0
  ELSE LET c == CHOOSE x \in letters : TRUE
       IN Count(s, c) * table[c] + WeightedCount(s, table, letters \ {c})

\* the digital root of a positive integer
DigitalRoot(n) == 1 + ((n - 1) % 9)

DigitalRootOfOrdinal == [c \in DOMAIN GREEK_ORDINAL |-> DigitalRoot(GREEK_ORDINAL[c])]

HasCombiningAccent(t) == \E i \in DOMAIN t : t[i] \in {768, 769, 787, 788, 834}

HasPrecomposed(t) == \E i \in DOMAIN t : Decompose(t[i]) # <<t[i]>>

\* C2: accent invariance. computeGreek of a word of base letters and of the
\* same word with any combination of acute, grave, circumflex accents and
\* breathings layered on its letters, precomposed or combining, return the
\* same standard, ordinal and reduced values.
C2_AccentInvariance ==
  pc = "accented" =>
    /\ gemVariant.standard = gem.standard
    /\ gemVariant.ordinal = gem.ordinal
    /\ gemVariant.reduced = gem.reduced

C2_Witness ==
  /\ pc = "accented"
  /\ Len(text) = 2
  /\ HasCombiningAccent(variant)
  /\ HasPrecomposed(variant)
  /\ gem.standard > 0

\* C3: iota-subscript inclusion. When a letter of a word carries U+0345,
\* alone or with other accents on the same letter, the standard value is
\* that of the word without the subscript plus 10.
C3_IotaSubscriptAddsTen ==
  pc = "subscripted" => gemVariant.standard = gem.standard + 10

C3_Witness ==
  /\ pc = "subscripted"
  /\ \E i \in DOMAIN variant : variant[i] = 837 /\ i > 1 /\ variant[i - 1] = 769
  /\ gem.standard > 0

C3_WitnessPrecomposed ==
  /\ pc = "subscripted"
  /\ \E i \in DOMAIN variant : variant[i] = 8115 /\ text[i] = 945

\* C4: normalization is idempotent: normalizeGreek(normalizeGreek(x)) equals
\* normalizeGreek(x) for every input string x.
C4_Idempotent ==
  pc = "renormalized" => renormalized = normalized

\* C5: reduced is the sum, over every character of the normalized text that
\* is in the ordinal table, of the digital root (1..9) of that character's
\* ordinal; the reduction is per character, never of the running total.
C5_ReducedIsSumOfDigitalRoots ==
  pc = "computed" =>
    /\ \A c \in DOMAIN GREEK_ORDINAL : DigitalRootOfOrdinal[c] \in 1..9
    /\ gem.reduced = WeightedCount(normalized, DigitalRootOfOrdinal, DOMAIN GREEK_ORDINAL)

\* the result exceeds 9, and a letter whose ordinal needs two digit sums (τ, 19)
C5_Witness ==
  /\ pc = "computed"
  /\ gem.reduced > 9
  /\ \E i \in DOMAIN normalized : normalized[i] = 964

\* C6: standard is the sum of the letter-value entries and ordinal the sum of
\* the ordinal entries over every character occurrence of the normalized
\* text; a character absent from a table contributes zero to that field.
C6_StandardAndOrdinalAreSums ==
  pc = "computed" =>
    /\ gem.standard = WeightedCount(normalized, GREEK_VALUES, DOMAIN GREEK_VALUES)
    /\ gem.ordinal = WeightedCount(normalized, GREEK_ORDINAL, DOMAIN GREEK_ORDINAL)

\* a repeated letter, a character in one table only and one in neither
C6_Witness ==
  /\ pc = "computed"
  /\ \E i, j \in DOMAIN normalized : i # j /\ normalized[i] = normalized[j]
                                     /\ normalized[i] \in DOMAIN GREEK_ORDINAL
  /\ \E i \in DOMAIN text : text[i] = 987 \/ text[i] = 44

\* C7: both functions are total, and computeGreek of the empty string or of
\* a string of punctuation and spaces only is {0, 0, 0}.
C7_TotalAndZero ==
  pc = "computed" =>
    /\ normalized \in Seq(Nat)
    /\ gem \in [standard : Nat, ordinal : Nat, reduced : Nat]
    /\ (\A i \in DOMAIN text : text[i] \in PunctuationAndSpace) => gem = ZeroGematria

C7_Witness ==
  /\ pc = "computed"
  /\ Len(text) = 3
  /\ \A i \in DOMAIN text : text[i] \in PunctuationAndSpace
  /\ \E i, j \in DOMAIN text : text[i] = 32 /\ text[j] = 44

C7_WitnessEmpty ==
  pc = "computed" /\ text = <<>> /\ gem = ZeroGematria

\* C8 as claimed: the ordinal table is defined on the same letter set as the
\* letter-value table, so a normalized character contributes to standard if
\* and only if it contributes to ordinal and reduced.
C8_SameLetterSet ==
  pc = "computed" =>
    \A i \in DOMAIN normalized :
      normalized[i] \in DOMAIN GREEK_VALUES <=> normalized[i] \in DOMAIN GREEK_ORDINAL

ArchaicNumerals == {987, 991, 993}     \* stigma, koppa, sampi

\* alphabetical position of a letter of U+03B1..U+03C9, the two sigmas sharing one
AlphabetPosition(c) == IF c <= 962 THEN c - 944 ELSE c - 945

\* C8 as amended: the ordinal table is defined on the 24 letters plus final
\* sigma with ordinals 1..24 in alphabetical order; the letter-value table is
\* defined on those and on the three archaic numerals stigma, koppa and
\* sampi; in each table both sigmas share a value. A normalized character
\* that contributes to ordinal contributes to reduced and to standard, and
\* one that contributes to standard contributes to ordinal unless it is an
\* archaic numeral.
C8_OrdinalLettersWithinValueLetters ==
  pc = "computed" =>
    /\ DOMAIN GREEK_ORDINAL = 945..969
    /\ \A c \in DOMAIN GREEK_ORDINAL : GREEK_ORDINAL[c] = AlphabetPosition(c)
    /\ {GREEK_ORDINAL[c] : c \in DOMAIN GREEK_ORDINAL} = 1..24
    /\ DOMAIN GREEK_VALUES = DOMAIN GREEK_ORDINAL \cup ArchaicNumerals
    /\ GREEK_VALUES[962] = GREEK_VALUES[963]
    /\ GREEK_ORDINAL[962] = GREEK_ORDINAL[963]
    /\ (gem.ordinal > 0) = (gem.reduced > 0)
    /\ gem.ordinal > 0 => gem.standard > 0
    /\ (gem.standard > 0 /\ gem.ordinal = 0) =>
         \E i \in DOMAIN normalized : normalized[i] \in ArchaicNumerals
    /\ (gem.standard > 0 /\ \A i \in DOMAIN normalized : normalized[i] \notin ArchaicNumerals)
         => gem.ordinal > 0

\* stigma alone: counted by standard, not by ordinal or reduced
C8_Witness ==
  /\ pc = "computed"
  /\ normalized = <<987>>
  /\ gem = [standard |-> 6, ordinal |-> 0, reduced |-> 0]

C8_WitnessSigmas ==
  /\ pc = "computed"
  /\ normalized = <<963, 945, 962>>
  /\ gem.ordinal = 37

\* C9: computeGreek('λόγος').standard is 373.
C9_LogosIs373 ==
  (pc = "computed" /\ text = Logos) => gem.standard = 373

C9_Witness ==
  pc = "computed" /\ text = Logos /\ normalized = LogosPlain

\* C10: the word record for the text 'Ἐν' carries the gematria triple
\* {standard: 55, ordinal: 12, reduced: 3}.
C10_EnTriple ==
  (pc = "computed" /\ text = En) =>
    gem = [standard |-> 55, ordinal |-> 12, reduced |-> 3]

(***************************************************************************)
(* Properties of the import pipeline, checked under Spec.                  *)
(***************************************************************************)
\* sum of one gematria field over a list of words, from the last word back
RECURSIVE FieldSum(_, _)
FieldSum(ws, k) ==
  IF ws = <<>> THEN 0
  ELSE ws[Len(ws)].gematria[k] + FieldSum(SubSeq(ws, 1, Len(ws) - 1), k)

Reorderings(n) == {f \in [1..n -> 1..n] : \A i, j \in 1..n : f[i] = f[j] => i = j}

\* C1: in every verse file saveVerse wrote, each field of the verse-level
\* gematria equals the sum of that field over the gematria triples of the
\* verse's words, and the totals are the same for any order of the words.
C1_VerseGematriaIsSumOfWords ==
  \A path \in DOMAIN files :
    LET data == files[path]
    IN /\ DOMAIN data.gematria = {"standard", "ordinal", "reduced"}
       /\ \A k \in DOMAIN data.gematria : data.gematria[k] = FieldSum(data.words, k)
       /\ \A f \in Reorderings(Len(data.words)) :
            VerseDataOf([i \in DOMAIN data.words |-> data.words[f[i]]]).gematria
              = data.gematria

\* a saved verse of three words with different triples, read out of order
C1_Witness ==
  /\ pc = "done"
  /\ \E path \in DOMAIN files :
       LET ws == files[path].words
       IN /\ Len(ws) = 3
          /\ \A i, j \in DOMAIN ws : i # j => ws[i].gematria # ws[j].gematria
          /\ files[path].gematria.standard = 55 + 719 + 373
  /\ Len(rows) = 3
  /\ rows[1].text = Logos

\* the control positions after filterToTR and after groupByVerse
AfterFilter == {"filtered", "saving", "done", "failed"}
AfterGrouping == {"saving", "done", "failed"}

HasUpperK(row) == \E i \in DOMAIN row.manuscript_source : row.manuscript_source[i] = 75

AllWords == {<<v, j>> \in (DOMAIN verses) \X (1..MaxRows) : j <= Len(verses[v].words)}

\* C11: filterToTR keeps a row if and only if its manuscript_source contains
\* an upper-case K, the kept rows keep their input order, and every word of
\* every verse the import produces comes from a row whose manuscript_source
\* contains K.
C11_OnlyTextusReceptus ==
  /\ pc \in AfterFilter =>
       \E f \in [1..Len(trRows) -> 1..Len(rows)] :
         /\ \A k \in 1..Len(trRows) : trRows[k] = rows[f[k]]
         /\ \A k, l \in 1..Len(trRows) : k < l => f[k] < f[l]
         /\ \A i \in 1..Len(rows) : HasUpperK(rows[i]) <=> \E k \in 1..Len(trRows) : f[k] = i
  /\ pc \in AfterGrouping =>
       \A p \in AllWords :
         \E i \in 1..Len(rows) :
           /\ HasUpperK(rows[i])
           /\ parseReference(rows[i].reference) # Null
           /\ VerseKey(parseReference(rows[i].reference)[1]) = verses[p[1]].key
           /\ rows[i].text = verses[p[1]].words[p[2]].text
           /\ rows[i].translation = verses[p[1]].words[p[2]].translation

\* rows with NO and with a lower-case k dropped from between kept rows
C11_Witness ==
  /\ pc = "done"
  /\ Len(rows) = 3
  /\ ~HasUpperK(rows[2])
  /\ \E i \in DOMAIN rows[2].manuscript_source : rows[2].manuscript_source[i] = 107
  /\ HasUpperK(rows[1]) /\ HasUpperK(rows[3])
  /\ rows[1] # rows[3]
  /\ Len(trRows) = 2
  /\ DOMAIN files # {}

\* 'G' + d digits + x upper-case letters + '=' + a morphology of one line
DStrongsShape(s, d, x) ==
  /\ Len(s) >= d + x + 3
  /\ s[1] = 71
  /\ \A i \in 2..(d + 1) : IsDigit(s[i])
  /\ x = 1 => s[d + 2] \in 65..90
  /\ s[d + x + 2] = 61
  /\ \A i \in (d + x + 3)..Len(s) : ~IsLineTerminator(s[i])

RECURSIVE StripLeadingZeros(_)
StripLeadingZeros(t) ==
  IF Len(t) > 1 /\ Head(t) = 48 THEN StripLeadingZeros(Tail(t)) ELSE t

\* every kept row with a parsable reference and a dStrongs of the shape with
\* x in suffixes has a word with the Strong's number, lemma and morphology
DStrongsParsed(suffixes) ==
  pc \in AfterGrouping =>
    \A i \in 1..Len(trRows) :
      \A d \in 1..Len(trRows[i].dStrongs), x \in suffixes :
        (/\ parseReference(trRows[i].reference) # Null
         /\ DStrongsShape(trRows[i].dStrongs, d, x))
        => LET ds == trRows[i].dStrongs
               strongs == <<71>> \o StripLeadingZeros(SubSeq(ds, 2, d + 1))
               morph == Robinson \o SubSeq(ds, d + x + 3, Len(ds))
           IN \E p \in AllWords :
                LET w == verses[p[1]].words[p[2]]
                IN /\ verses[p[1]].key = VerseKey(parseReference(trRows[i].reference)[1])
                   /\ w.text = trRows[i].text
                   /\ w.lemma = Some(<<strongs>>)
                   /\ w.strongs = Some(strongs)
                   /\ w.morph = Some(morph)

\* C12: parseDStrongs accepts 'G' + digits + an optional single upper-case
\* sense-suffix letter + '=' + morphology, and the word entry built from such
\* a row has the Strong's number without leading zeros and without the suffix
\* as strongs and lemma, and the morphology prefixed with 'robinson:'.
C12_SenseSuffixAccepted == DStrongsParsed({0, 1})

\* the same for values without a suffix letter
DStrongsWithoutSuffixParsed == DStrongsParsed({0})

\* a row G2424G=N-NSM-P was grouped into a word
SenseSuffixRowGrouped ==
  /\ pc = "done"
  /\ \E i \in 1..Len(trRows) :
       /\ DStrongsShape(trRows[i].dStrongs, 4, 1)
       /\ parseReference(trRows[i].reference) # Null
  /\ \E i \in 1..Len(trRows) :
       /\ DStrongsShape(trRows[i].dStrongs, 5, 0)
       /\ parseReference(trRows[i].reference) # Null

\* the positions of the dots of a string
Dots(s) == {i \in DOMAIN s : s[i] = 46}

\* the four fields of a string with exactly three dots, <<>> for other strings
FourFields(s) ==
  IF Cardinality(Dots(s)) # 3 THEN <<>>
  ELSE LET a == CHOOSE i \in Dots(s) : \A j \in Dots(s) : i <= j
           c == CHOOSE i \in Dots(s) : \A j \in Dots(s) : i >= j
           b == CHOOSE i \in Dots(s) : i # a /\ i # c
       IN <<SubSeq(s, 1, a - 1), SubSeq(s, a + 1, b - 1),
            SubSeq(s, b + 1, c - 1), SubSeq(s, c + 1, Len(s))>>

\* 'Book.chapter.verse.position': a name of word characters and three numbers
IsReference(f) ==
  /\ f # <<>>
  /\ f[1] # <<>>
  /\ \A i \in DOMAIN f[1] : IsWordChar(f[1][i])
  /\ \A k \in 2..4 : f[k] # <<>> /\ \A i \in DOMAIN f[k] : f[k][i] \in 48..57

FourFieldReference(s) == IsReference(FourFields(s))

\* the number a string of decimal digits denotes, read from the left
RECURSIVE DecimalValue(_, _)
DecimalValue(acc, t) ==
  IF t = <<>> THEN acc ELSE DecimalValue(10 * acc + (Head(t) - 48), Tail(t))

WordCount == Cardinality(AllWords)

\* the reference parsed to the fields f and the row became a word of its verse
ParsedAndGrouped(row, ref, f) ==
  /\ ref # Null
  /\ ref[1].book = (IF f[1] \in DOMAIN BOOK_MAP THEN BOOK_MAP[f[1]] ELSE f[1])
  /\ ref[1].chapter = DecimalValue(0, f[2])
  /\ ref[1].verse = DecimalValue(0, f[3])
  /\ ref[1].position = DecimalValue(0, f[4])
  /\ \E v \in DOMAIN verses :
       /\ verses[v].book = ref[1].book
       /\ verses[v].chapter = DecimalValue(0, f[2])
       /\ verses[v].verse = DecimalValue(0, f[3])
       /\ \E j \in DOMAIN verses[v].words : verses[v].words[j].text = row.text

\* C13: parseReference returns the book and the chapter, verse and position
\* as base-10 integers for a reference of exactly four dot-separated fields
\* 'Book.chapter.verse.position' and null for any other string; a row whose
\* reference parses to null is skipped by groupByVerse and contributes to no
\* verse.
C13_ReferenceParsedOrSkipped ==
  pc \in AfterGrouping =>
    /\ \A i \in 1..Len(trRows) :
         LET f == FourFields(trRows[i].reference)
         IN IF IsReference(f)
            THEN ParsedAndGrouped(trRows[i], parseReference(trRows[i].reference), f)
            ELSE parseReference(trRows[i].reference) = Null
    /\ WordCount = Cardinality({i \in 1..Len(trRows) : FourFieldReference(trRows[i].reference)})

\* 'Rev.22.21.15' grouped into Revelation 22:21 while 'invalid' and 'Mat.1.1'
\* were skipped, and the import ran to its end
C13_Witness ==
  /\ pc = "done"
  /\ Len(trRows) = 3
  /\ \E i \in 1..3 : trRows[i].reference = <<105, 110, 118, 97, 108, 105, 100>>
  /\ \E i \in 1..3 : Cardinality(Dots(trRows[i].reference)) = 2
  /\ Len(verses) = 1
  /\ verses[1].chapter = 22 /\ verses[1].verse = 21
  /\ Len(verses[1].words) = 1
  /\ count = 1

\* a leading zero dropped: 'John.01.1.04' lands in chapter 1
C13_WitnessLeadingZero ==
  /\ pc = "done"
  /\ \E i \in 1..Len(trRows) :
       /\ FourFieldReference(trRows[i].reference)
       /\ FourFields(trRows[i].reference)[2] = <<48, 49>>
  /\ \A v \in DOMAIN verses : verses[v].chapter = 1

\* the position field of the reference of a kept row, as the source numbers it
OriginalPosition(i) == DecimalValue(0, FourFields(trRows[i].reference)[4])

\* the kept rows that belong to a verse
RowsOfVerse(v) ==
  {i \in 1..Len(trRows) :
     /\ parseReference(trRows[i].reference) # Null
     /\ VerseKey(parseReference(trRows[i].reference)[1]) = v.key}

\* C14: after groupByVerse, in every verse with n words the position fields
\* are 1, 2, ..., n in list order, the list is ordered by ascending original
\* reference position even when the filter left gaps in the numbering, and
\* each word keeps the text and the gematria triple of its row.
C14_RenumberedInOrder ==
  pc \in AfterGrouping =>
    \A v \in DOMAIN verses :
      LET ws == verses[v].words
      IN /\ \A j \in DOMAIN ws : ws[j].position = j
         /\ \E g \in [DOMAIN ws -> RowsOfVerse(verses[v])] :
              /\ \A j, k \in DOMAIN ws : j # k => g[j] # g[k]
              /\ \A j, k \in DOMAIN ws : j < k => OriginalPosition(g[j]) <= OriginalPosition(g[k])
              /\ \A j \in DOMAIN ws :
                   /\ ws[j].text = trRows[g[j]].text
                   /\ ws[j].gematria = computeGreek(trRows[g[j]].text)

\* John 1:1 read as words 05, 04, 01 (02 and 03 missing) and stored as 1, 2, 3
C14_Witness ==
  /\ pc = "done"
  /\ Len(trRows) = 3
  /\ \A i \in 1..3 : FourFieldReference(trRows[i].reference)
  /\ OriginalPosition(1) = 5 /\ OriginalPosition(2) = 4 /\ OriginalPosition(3) = 1
  /\ Len(verses) = 1
  /\ Len(verses[1].words) = 3
  /\ verses[1].words[1].text = En /\ verses[1].words[1].position = 1
  /\ verses[1].words[2].text = LogosPlain /\ verses[1].words[2].position = 2
  /\ verses[1].words[3].text = Logos /\ verses[1].words[3].position = 3
  /\ verses[1].words[3].gematria.standard = 373

\* the kept rows with a parsable reference, and the (mapped book, chapter,
\* verse) of one of them, read off the reference itself
ParsableRows == {i \in 1..Len(trRows) : FourFieldReference(trRows[i].reference)}

Components(i) ==
  LET f == FourFields(trRows[i].reference)
  IN <<IF f[1] \in DOMAIN BOOK_MAP THEN BOOK_MAP[f[1]] ELSE f[1],
       DecimalValue(0, f[2]), DecimalValue(0, f[3])>>

ComponentsOfVerse(v) == <<v.book, v.chapter, v.verse>>

\* C15: grouping loses and duplicates nothing: every row with a parsable
\* reference is exactly one word of exactly one verse, the verse of its
\* (mapped book, chapter, verse); two rows are in the same verse if and only
\* if those three components are equal; and the number of words over all
\* verses equals the number of parsable rows.
C15_NothingLostOrDuplicated ==
  pc \in AfterGrouping =>
    LET parsable == ParsableRows
        comp == [i \in parsable |-> Components(i)]
        vcomp == [v \in DOMAIN verses |-> ComponentsOfVerse(verses[v])]
    IN /\ \A v, w \in DOMAIN verses :
            v # w => verses[v].key # verses[w].key /\ vcomp[v] # vcomp[w]
       /\ \A i \in parsable :
            Cardinality({v \in DOMAIN verses : vcomp[v] = comp[i]}) = 1
       /\ \A v \in DOMAIN verses :
            LET members == {i \in parsable : comp[i] = vcomp[v]}
                ws == verses[v].words
            IN /\ members # {}
               /\ Len(ws) = Cardinality(members)
               /\ \A j \in DOMAIN ws :
                    Cardinality({k \in DOMAIN ws : ws[k].text = ws[j].text})
                      = Cardinality({i \in members : trRows[i].text = ws[j].text})
       /\ WordCount = Cardinality(parsable)

\* 'Jhn.1.1.01' and 'John.01.1.04' share John 1:1 and 'Mat.1.1.01' has its own
\* verse: three rows, two verses, three words
C15_Witness ==
  /\ pc = "done"
  /\ Len(trRows) = 3
  /\ ParsableRows = {1, 2, 3}
  /\ Components(1) = Components(3)
  /\ FourFields(trRows[1].reference)[1] # FourFields(trRows[3].reference)[1]
  /\ Components(2) # Components(1)
  /\ Components(2)[2] = Components(1)[2] /\ Components(2)[3] = Components(1)[3]
  /\ Len(verses) = 2
  /\ Len(verses[1].words) = 2 /\ Len(verses[2].words) = 1
  /\ count = 2

(***************************************************************************)
(* Both parts together: computeGreek on the bounded texts and the import   *)
(* on the sample rows.                                                     *)
(***************************************************************************)
InitAll == Init \/ InitGematria

NextAll == Next \/ NextGematria

SpecAll == InitAll /\ [][NextAll]_vars

Ordered(g) == 0 <= g.reduced /\ g.reduced <= g.ordinal /\ g.ordinal <= g.standard

\* C16: for every input string the triple computeGreek returns satisfies
\* 0 <= reduced <= ordinal <= standard, and so does every verse-level
\* aggregate saveVerse computes.
C16_ReducedOrdinalStandardOrdered ==
  /\ pc \in {"computed", "renormalized", "accented", "subscripted"} => Ordered(gem)
  /\ pc \in {"accented", "subscripted"} => Ordered(gemVariant)
  /\ \A path \in DOMAIN files :
       /\ Ordered(files[path].gematria)
       /\ \A j \in DOMAIN files[path].words : Ordered(files[path].words[j].gematria)

\* a saved verse of three words whose totals are strictly ordered
C16_Witness ==
  /\ pc = "done"
  /\ \E path \in DOMAIN files :
       /\ Len(files[path].words) = 3
       /\ 0 < files[path].gematria.reduced
       /\ files[path].gematria.reduced < files[path].gematria.ordinal
       /\ files[path].gematria.ordinal < files[path].gematria.standard
       /\ \E j \in 1..3 : files[path].words[j].gematria.reduced
                            < files[path].words[j].gematria.ordinal

\* a text with a letter of both tables, a stigma and a character of neither
C16_WitnessText ==
  /\ pc = "computed"
  /\ \E i, j, k \in DOMAIN text : text[i] = 964 /\ text[j] = 987 /\ text[k] = 44
  /\ gem.reduced < gem.ordinal /\ gem.ordinal < gem.standard

\* texts on which the three values coincide
C16_WitnessEqual ==
  /\ pc = "computed"
  /\ text = <<945>>
  /\ gem = [standard |-> 1, ordinal |-> 1, reduced |-> 1]

====
